---- MODULE Spec2Model ----
(***************************************************************************)
(* Model of octavia/compute/drivers/nova_driver.py: the process-wide       *)
(* NovaKeystoneAuth session/client cache and the VirtualMachineManager     *)
(* build / delete / status / get_amphora operations.                       *)
(*                                                                         *)
(* Callers are threads of one process.  A caller constructs a              *)
(* VirtualMachineManager (which runs get_nova_client step by step, every   *)
(* read and write of a class attribute being its own step) and then        *)
(* invokes driver operations, each of which is one blocking round trip to  *)
(* the remote provider.  The provider is external: each remote call draws  *)
(* its outcome from the set of outcomes it can produce.                    *)
(***************************************************************************)
EXTENDS Integers, Sequences, FiniteSets, TLC

\* ---- bounds ----
NProcs == 2
MaxCalls == 3
MaxNets == 2
MaxServers == 2

Procs == 1..NProcs
ServerIds == 1..MaxServers
Regions == {"RegionOne", "RegionTwo"}
NetNames == {"mgmt", "public"}

\* ---- values ----
NoSession == 0
NoClient == [id |-> 0, session |-> 0, region |-> "None"]

\* CONF.networking.lb_network_name
lb_network_name == "mgmt"
\* constants.AMPHORA_UP / constants.AMPHORA_DOWN
AMPHORA_UP == "UP"
AMPHORA_DOWN == "DOWN"

NetIds == {"net-a", "net-b"}
Statuses == {"ACTIVE", "BUILD", "active"}
\* the address list of one network in a server's addresses dict
AddrLists == { <<>>,
               <<[addr |-> "192.168.1.9"]>>,
               <<[addr |-> "10.0.0.5"], [addr |-> "192.168.1.9"]>> }

\* sequences over S of length at most n
RECURSIVE SeqsUpTo(_, _)
SeqsUpTo(S, n) ==
  IF n = 0 THEN {<<>>}
  ELSE LET shorter == SeqsUpTo(S, n - 1)
       IN shorter \cup {Append(q, x) : q \in shorter, x \in S}

\* the network_ids argument of build: None (the default) or a list of ids
NetworkIdArgs ==
  {[none |-> TRUE, ids |-> <<>>]} \cup
  {[none |-> FALSE, ids |-> q] : q \in SeqsUpTo(NetIds, MaxNets)}

\* a server as novaclient returns it: id, status, addresses {name: [{addr}]}
NoResponse == [id |-> 0, status |-> "None", addresses |-> <<>>]
NovaResponses(id) ==
  {[id |-> id, status |-> st, addresses |-> ad] :
     st \in Statuses,
     ad \in UNION {[D -> AddrLists] : D \in SUBSET NetNames}}

\* outcomes of self.manager.get(amphora_id): the server, or an exception
\* (NotFound when the server is missing on the remote side, any other failure)
ManagerGetOutcomes(id) ==
  {[kind |-> "ok", resp |-> r] : r \in NovaResponses(id)} \cup
  {[kind |-> k, resp |-> NoResponse] : k \in {"error", "not_found"}}

\* outcomes of self.manager.create(...): a server with a fresh id, or an exception
ManagerCreateOutcomes ==
  {[kind |-> "ok", id |-> i] : i \in ServerIds} \cup {[kind |-> "error", id |-> 0]}

\* outcomes of self.manager.delete(server=amphora_id)
ManagerDeleteOutcomes == {"ok", "error", "not_found"}

NoAmphora == [compute_id |-> 0, status |-> "None", lb_network_ip |-> "None"]

\* the loop taking the last address ([-1]) of the matching network
RECURSIVE TranslateLoop_LastAddr(_, _, _)
TranslateLoop_LastAddr(addresses, names, ip) ==
  IF names = {} THEN [exc |-> "None", ip |-> ip]
  ELSE LET network_name == CHOOSE n \in names : TRUE
       IN IF network_name = lb_network_name
          THEN IF Len(addresses[network_name]) = 0
               THEN [exc |-> "IndexError", ip |-> ip]
               ELSE TranslateLoop_LastAddr(addresses, names \ {network_name},
                      addresses[network_name][Len(addresses[network_name])].addr)
          ELSE TranslateLoop_LastAddr(addresses, names \ {network_name}, ip)

\* for network_name in nova_response.addresses: if network_name == lb_network_name: ...
RECURSIVE TranslateLoop(_, _, _)
TranslateLoop(addresses, names, ip) ==
  IF names = {} THEN [exc |-> "None", ip |-> ip]
  ELSE LET network_name == CHOOSE n \in names : TRUE
       IN IF network_name = lb_network_name
          THEN IF Len(addresses[network_name]) = 0
               THEN [exc |-> "IndexError", ip |-> ip]
               ELSE TranslateLoop(addresses, names \ {network_name},
                                  addresses[network_name][1].addr)
          ELSE TranslateLoop(addresses, names \ {network_name}, ip)

\* VirtualMachineManager._translate_amphora
translate_amphora(out) ==
  LET r == TranslateLoop(out.resp.addresses, DOMAIN out.resp.addresses, "None")
  IN IF r.exc # "None"
     THEN [exc |-> r.exc, amp |-> NoAmphora]
     ELSE [exc |-> "None",
           amp |-> [compute_id |-> out.resp.id, status |-> out.resp.status,
                    lb_network_ip |-> r.ip]]

\* VirtualMachineManager.get_amphora, given what self.manager.get did
get_amphora(out) ==
  IF out.kind \in {"error", "not_found"}
  THEN [exc |-> "ComputeGetException", amp |-> NoAmphora,
        logs |-> <<"Error retrieving nova virtual machine.">>]
  ELSE LET t == translate_amphora(out)
       IN [exc |-> t.exc, amp |-> t.amp, logs |-> <<>>]

\* status without its try/except: the error of get_amphora escapes unchanged
status_Unwrapped(out) ==
  LET g == get_amphora(out)
  IN IF g.exc # "None"
     THEN [exc |-> g.exc, ret |-> "None", logs |-> g.logs]
     ELSE IF g.amp # NoAmphora /\ g.amp.status = "ACTIVE"
          THEN [exc |-> "None", ret |-> AMPHORA_UP, logs |-> g.logs]
          ELSE [exc |-> "None", ret |-> AMPHORA_DOWN, logs |-> g.logs]

\* VirtualMachineManager.status, given what self.manager.get did
status(out) ==
  LET g == get_amphora(out)
  IN IF g.exc # "None"
     THEN [exc |-> "ComputeStatusException", ret |-> "None",
           logs |-> Append(g.logs, "Error retrieving nova virtual machine status.")]
     ELSE IF g.amp # NoAmphora /\ g.amp.status = "ACTIVE"
          THEN [exc |-> "None", ret |-> AMPHORA_UP, logs |-> g.logs]
          ELSE [exc |-> "None", ret |-> AMPHORA_DOWN, logs |-> g.logs]

\* the loop with nics.insert(0, ...) in place of nics.append(...)
RECURSIVE BuildNics_Prepend(_, _)
BuildNics_Prepend(nics, ids) ==
  IF ids = <<>> THEN nics
  ELSE BuildNics_Prepend(<<[net_id |-> Head(ids)]>> \o nics, Tail(ids))

\* nics = []; for net_id in network_ids: nics.append({"net-id": net_id})
RECURSIVE BuildNics(_, _)
BuildNics(nics, ids) ==
  IF ids = <<>> THEN nics
  ELSE BuildNics(Append(nics, [net_id |-> Head(ids)]), Tail(ids))

\* build iterating over (network_ids or []): None is treated as no networks
build_NoneAsEmpty(network_ids, out) ==
  LET call == [nics |-> BuildNics(<<>>, network_ids.ids), config_drive |-> TRUE]
  IN IF out.kind = "ok"
     THEN [exc |-> "None", ret |-> out.id, creates |-> <<call>>, logs |-> <<>>]
     ELSE [exc |-> "ComputeBuildException", ret |-> 0, creates |-> <<call>>,
           logs |-> <<"Error building nova virtual machine.">>]

\* VirtualMachineManager.build, given what self.manager.create does when called
build(network_ids, out) ==
  IF network_ids.none
  THEN [exc |-> "ComputeBuildException", ret |-> 0, creates |-> <<>>,
        logs |-> <<"Error building nova virtual machine.">>]
  ELSE LET call == [nics |-> BuildNics(<<>>, network_ids.ids), config_drive |-> TRUE]
       IN IF out.kind = "ok"
          THEN [exc |-> "None", ret |-> out.id, creates |-> <<call>>, logs |-> <<>>]
          ELSE [exc |-> "ComputeBuildException", ret |-> 0, creates |-> <<call>>,
                logs |-> <<"Error building nova virtual machine.">>]

\* VirtualMachineManager.delete, given what self.manager.delete did
delete(out) ==
  IF out = "ok"
  THEN [exc |-> "None", logs |-> <<>>]
  ELSE [exc |-> "ComputeDeleteException",
        logs |-> <<"Error deleting nova virtual machine.">>]

\* record of the most recent driver operation and what its caller observed
NoLast ==
  [op |-> "none", arg |-> 0, network_ids |-> [none |-> TRUE, ids |-> <<>>],
   remote |-> "not_called", remote_id |-> 0, resp |-> NoResponse, creates |-> <<>>,
   ret_id |-> 0, ret_status |-> "None", ret_amp |-> NoAmphora,
   exc |-> "None", logs |-> <<>>]

VARIABLES
  keystone_session,  \* NovaKeystoneAuth._keystone_session (0 is None)
  nova_client,       \* NovaKeystoneAuth._nova_client
  pc,                \* position of each caller inside VirtualMachineManager()
  region,            \* region argument of the caller's current call
  sess,              \* value returned to the caller by _get_keystone_session
  self_client,       \* self._nova_client of the caller's driver instance
  exc,               \* exception that left the caller's last constructor call
  alog,              \* error log records emitted by the caller's current call
  sessionsBuilt,     \* number of session.Session(...) constructions completed
  clientsBuilt,      \* number of nova_client.Client(...) constructions completed
  calls,             \* number of get_nova_client calls started
  firstClient,       \* client returned by the first get_nova_client that returned
  late,              \* caller's current call started after firstClient was returned
  built,             \* sessions / clients the caller's current call constructed
  last               \* the most recent driver operation: inputs, remote outcome, result

authvars == <<keystone_session, nova_client, pc, region, sess, self_client, exc,
              alog, sessionsBuilt, clientsBuilt, calls, firstClient, late, built>>

vars == <<authvars, last>>

InitAuth ==
  /\ keystone_session = NoSession
  /\ nova_client = NoClient
  /\ pc = [p \in Procs |-> "idle"]
  /\ region = [p \in Procs |-> "None"]
  /\ sess = [p \in Procs |-> NoSession]
  /\ self_client = [p \in Procs |-> NoClient]
  /\ exc = [p \in Procs |-> "None"]
  /\ alog = [p \in Procs |-> <<>>]
  /\ sessionsBuilt = 0
  /\ clientsBuilt = 0
  /\ calls = 0
  /\ firstClient = NoClient
  /\ late = [p \in Procs |-> FALSE]
  /\ built = [p \in Procs |-> [sessions |-> 0, clients |-> 0]]

\* VirtualMachineManager(region): __init__ calls get_nova_client(region)
Construct(p, r) ==
  /\ pc[p] \in {"idle", "ready", "raised"}
  /\ calls < MaxCalls
  /\ calls' = calls + 1
  /\ pc' = [pc EXCEPT ![p] = "gnc_check"]
  /\ region' = [region EXCEPT ![p] = r]
  /\ sess' = [sess EXCEPT ![p] = NoSession]
  /\ self_client' = [self_client EXCEPT ![p] = NoClient]
  /\ exc' = [exc EXCEPT ![p] = "None"]
  /\ alog' = [alog EXCEPT ![p] = <<>>]
  /\ late' = [late EXCEPT ![p] = (firstClient # NoClient)]
  /\ built' = [built EXCEPT ![p] = [sessions |-> 0, clients |-> 0]]
  /\ UNCHANGED last
  /\ UNCHANGED <<keystone_session, nova_client, sessionsBuilt, clientsBuilt, firstClient>>

\* get_nova_client: if not cls._nova_client
GncCheck(p) ==
  /\ pc[p] = "gnc_check"
  /\ pc' = [pc EXCEPT ![p] = IF nova_client = NoClient THEN "gks_check" ELSE "gnc_return"]
  /\ UNCHANGED last
  /\ UNCHANGED <<keystone_session, nova_client, region, sess, self_client, exc, alog,
                 sessionsBuilt, clientsBuilt, calls, firstClient, late, built>>

\* _get_keystone_session: if not cls._keystone_session
GksCheck(p) ==
  /\ pc[p] = "gks_check"
  /\ pc' = [pc EXCEPT ![p] = IF keystone_session = NoSession THEN "gks_create" ELSE "gks_return"]
  /\ UNCHANGED last
  /\ UNCHANGED <<keystone_session, nova_client, region, sess, self_client, exc, alog,
                 sessionsBuilt, clientsBuilt, calls, firstClient, late, built>>

\* cls._keystone_session = session.Session(auth=kc)
GksCreate(p) ==
  /\ pc[p] = "gks_create"
  /\ keystone_session' = sessionsBuilt + 1
  /\ sessionsBuilt' = sessionsBuilt + 1
  /\ built' = [built EXCEPT ![p].sessions = @ + 1]
  /\ pc' = [pc EXCEPT ![p] = "gks_return"]
  /\ UNCHANGED last
  /\ UNCHANGED <<nova_client, region, sess, self_client, exc, alog,
                 clientsBuilt, calls, firstClient, late>>

\* the credential exchange raises: logged, re-raised unchanged into get_nova_client
GksFail(p) ==
  /\ pc[p] = "gks_create"
  /\ alog' = [alog EXCEPT ![p] = Append(@, "Error creating Keystone session.")]
  /\ exc' = [exc EXCEPT ![p] = "KeystoneError"]
  /\ pc' = [pc EXCEPT ![p] = "gnc_except"]
  /\ UNCHANGED last
  /\ UNCHANGED <<keystone_session, nova_client, region, sess, self_client,
                 sessionsBuilt, clientsBuilt, calls, firstClient, late, built>>

\* return cls._keystone_session
GksReturn(p) ==
  /\ pc[p] = "gks_return"
  /\ sess' = [sess EXCEPT ![p] = keystone_session]
  /\ pc' = [pc EXCEPT ![p] = "nc_create"]
  /\ UNCHANGED last
  /\ UNCHANGED <<keystone_session, nova_client, region, self_client, exc, alog,
                 sessionsBuilt, clientsBuilt, calls, firstClient, late, built>>

\* cls._nova_client = nova_client.Client(NOVA_2, session=..., region_name=region)
NcCreate(p) ==
  /\ pc[p] = "nc_create"
  /\ nova_client' = [id |-> clientsBuilt + 1, session |-> sess[p], region |-> region[p]]
  /\ clientsBuilt' = clientsBuilt + 1
  /\ built' = [built EXCEPT ![p].clients = @ + 1]
  /\ pc' = [pc EXCEPT ![p] = "gnc_return"]
  /\ UNCHANGED last
  /\ UNCHANGED <<keystone_session, region, sess, self_client, exc, alog,
                 sessionsBuilt, calls, firstClient, late>>

\* a failure handler that also drops the cached session
NcFail_DropsSession(p) ==
  /\ pc[p] = "nc_create"
  /\ exc' = [exc EXCEPT ![p] = "NovaClientError"]
  /\ pc' = [pc EXCEPT ![p] = "gnc_except"]
  /\ keystone_session' = NoSession
  /\ UNCHANGED last
  /\ UNCHANGED <<nova_client, region, sess, self_client, alog,
                 sessionsBuilt, clientsBuilt, calls, firstClient, late, built>>

\* client construction raises
NcFail(p) ==
  /\ pc[p] = "nc_create"
  /\ exc' = [exc EXCEPT ![p] = "NovaClientError"]
  /\ pc' = [pc EXCEPT ![p] = "gnc_except"]
  /\ UNCHANGED last
  /\ UNCHANGED <<keystone_session, nova_client, region, sess, self_client, alog,
                 sessionsBuilt, clientsBuilt, calls, firstClient, late, built>>

\* except Exception: with save_and_reraise_exception(): LOG.exception(...)
GncExcept(p) ==
  /\ pc[p] = "gnc_except"
  /\ alog' = [alog EXCEPT ![p] = Append(@, "Error creating Nova client.")]
  /\ pc' = [pc EXCEPT ![p] = "raised"]
  /\ UNCHANGED last
  /\ UNCHANGED <<keystone_session, nova_client, region, sess, self_client, exc,
                 sessionsBuilt, clientsBuilt, calls, firstClient, late, built>>

\* return cls._nova_client; self._nova_client = ...; self.manager = ...servers
GncReturn(p) ==
  /\ pc[p] = "gnc_return"
  /\ self_client' = [self_client EXCEPT ![p] = nova_client]
  /\ firstClient' = IF firstClient = NoClient THEN nova_client ELSE firstClient
  /\ pc' = [pc EXCEPT ![p] = "ready"]
  /\ UNCHANGED last
  /\ UNCHANGED <<keystone_session, nova_client, region, sess, exc, alog,
                 sessionsBuilt, clientsBuilt, calls, late, built>>

NextAuth ==
  \E p \in Procs :
    \/ \E r \in Regions : Construct(p, r)
    \/ GncCheck(p)
    \/ GksCheck(p)
    \/ GksCreate(p)
    \/ GksFail(p)
    \/ GksReturn(p)
    \/ NcCreate(p)
    \/ NcFail(p)
    \/ GncExcept(p)
    \/ GncReturn(p)

\* build(network_ids=...) on the caller's driver instance
Build(p, network_ids, out) ==
  /\ pc[p] = "ready"
  /\ LET b == build(network_ids, out)
     IN last' = [NoLast EXCEPT !.op = "build", !.network_ids = network_ids,
                               !.remote = IF b.creates = <<>> THEN "not_called" ELSE out.kind,
                               !.remote_id = IF b.creates = <<>> THEN 0 ELSE out.id,
                               !.creates = b.creates, !.ret_id = b.ret,
                               !.exc = b.exc, !.logs = b.logs]
  /\ UNCHANGED authvars

\* delete(amphora_id)
Delete(p, id, out) ==
  /\ pc[p] = "ready"
  /\ LET d == delete(out)
     IN last' = [NoLast EXCEPT !.op = "delete", !.arg = id, !.remote = out,
                               !.exc = d.exc, !.logs = d.logs]
  /\ UNCHANGED authvars

\* status(amphora_id)
Status(p, id, out) ==
  /\ pc[p] = "ready"
  /\ LET s == status(out)
     IN last' = [NoLast EXCEPT !.op = "status", !.arg = id, !.remote = out.kind,
                               !.resp = out.resp, !.ret_status = s.ret,
                               !.exc = s.exc, !.logs = s.logs]
  /\ UNCHANGED authvars

\* get_amphora(amphora_id)
Get(p, id, out) ==
  /\ pc[p] = "ready"
  /\ LET g == get_amphora(out)
     IN last' = [NoLast EXCEPT !.op = "get", !.arg = id, !.remote = out.kind,
                               !.resp = out.resp, !.ret_amp = g.amp,
                               !.exc = g.exc, !.logs = g.logs]
  /\ UNCHANGED authvars

NextDriver ==
  \E p \in Procs :
    \/ \E n \in NetworkIdArgs, out \in ManagerCreateOutcomes : Build(p, n, out)
    \/ \E id \in ServerIds, out \in ManagerDeleteOutcomes : Delete(p, id, out)
    \/ \E id \in ServerIds : \E out \in ManagerGetOutcomes(id) : Status(p, id, out)
    \/ \E id \in ServerIds : \E out \in ManagerGetOutcomes(id) : Get(p, id, out)

\* the process at start: nothing cached, no driver instance, no operation yet
Init == InitAuth /\ last = NoLast

\* the process after caller 1 constructed VirtualMachineManager("RegionOne")
InitDriver ==
  /\ keystone_session = 1
  /\ nova_client = [id |-> 1, session |-> 1, region |-> "RegionOne"]
  /\ pc = [p \in Procs |-> IF p = 1 THEN "ready" ELSE "idle"]
  /\ region = [p \in Procs |-> IF p = 1 THEN "RegionOne" ELSE "None"]
  /\ sess = [p \in Procs |-> IF p = 1 THEN 1 ELSE NoSession]
  /\ self_client = [p \in Procs |-> IF p = 1 THEN nova_client ELSE NoClient]
  /\ exc = [p \in Procs |-> "None"]
  /\ alog = [p \in Procs |-> <<>>]
  /\ sessionsBuilt = 1
  /\ clientsBuilt = 1
  /\ calls = 1
  /\ firstClient = nova_client
  /\ late = [p \in Procs |-> FALSE]
  /\ built = [p \in Procs |-> IF p = 1 THEN [sessions |-> 1, clients |-> 1]
                                       ELSE [sessions |-> 0, clients |-> 0]]
  /\ last = NoLast

Next == NextAuth \/ NextDriver

\* construction of driver instances by concurrent callers
SpecAuth == Init /\ [][NextAuth]_vars
\* operations on a constructed driver instance
SpecDriver == InitDriver /\ [][NextDriver]_vars
\* the whole process: construction and operations interleaved (SpecAuth and
\* SpecDriver are its two phases, each small enough to explore exhaustively)
Spec == Init /\ [][Next]_vars

\* ---------------------------------------------------------------------------
\* Properties
\* ---------------------------------------------------------------------------

\* every network of the response maps to one or more addresses
WellFormed(resp) == \A n \in DOMAIN resp.addresses : Len(resp.addresses[n]) >= 1

\* C1: concurrent first calls perform exactly one session construction and
\* exactly one client construction: never more than one of either, and exactly
\* one of each once every caller holds a driver instance.
C1_ExactlyOneAcquisition ==
  /\ sessionsBuilt <= 1
  /\ clientsBuilt <= 1
  /\ (\A p \in Procs : pc[p] = "ready") => (sessionsBuilt = 1 /\ clientsBuilt = 1)

\* C2: status returns UP iff the raw status is exactly "ACTIVE", DOWN for every
\* other raw status, and DOWN (a value, no exception) when the instance is
\* missing on the remote side.
C2_StatusUpIffActive ==
  last.op = "status" =>
    /\ (last.remote = "ok" /\ WellFormed(last.resp)) =>
         /\ last.exc = "None"
         /\ last.ret_status \in {AMPHORA_UP, AMPHORA_DOWN}
         /\ (last.ret_status = AMPHORA_UP <=> last.resp.status = "ACTIVE")
    /\ last.remote = "not_found" =>
         (last.exc = "None" /\ last.ret_status = AMPHORA_DOWN)

C4_BuildOneCreate ==
  (last.op = "build" /\ last.remote = "ok") =>
    /\ last.exc = "None"
    /\ Len(last.creates) = 1
    /\ last.creates[1].config_drive = TRUE
    /\ Len(last.creates[1].nics) = Len(last.network_ids.ids)
    /\ \A i \in 1..Len(last.network_ids.ids) :
         last.creates[1].nics[i] = [net_id |-> last.network_ids.ids[i]]
    /\ last.ret_id = last.remote_id

C4_Witness ==
  /\ last.op = "build"
  /\ last.remote = "ok"
  /\ last.network_ids.ids = <<"net-b", "net-a">>
  /\ last.ret_id = 2

\* C5: get on a server whose networks each have one or more addresses returns
\* the server's id and raw status, and as address the first address of the
\* network named lb_network_name, or none when no network has that name; it
\* does not raise.
C5_GetTranslates ==
  (last.op = "get" /\ last.remote = "ok" /\ WellFormed(last.resp)) =>
    /\ last.exc = "None"
    /\ last.ret_amp.compute_id = last.resp.id
    /\ last.ret_amp.status = last.resp.status
    /\ last.ret_amp.lb_network_ip =
         IF lb_network_name \in DOMAIN last.resp.addresses
         THEN last.resp.addresses[lb_network_name][1].addr
         ELSE "None"

C5_Witness ==
  /\ last.op = "get"
  /\ last.remote = "ok"
  /\ DOMAIN last.resp.addresses = NetNames
  /\ Len(last.resp.addresses["mgmt"]) = 2
  /\ Len(last.resp.addresses["public"]) = 1
  /\ last.ret_amp.lb_network_ip = "10.0.0.5"

\* C6: a failure is logged exactly once before it reaches the caller, also
\* through nested operations (status over get, client over session).
C6_LoggedOnce ==
  /\ last.remote \in {"error", "not_found"} => Len(last.logs) = 1
  /\ \A p \in Procs : pc[p] = "raised" => Len(alog[p]) = 1

\* C7: once the session cache holds a session it never changes to another one.
C7_SessionSetOnce ==
  [][keystone_session # NoSession => keystone_session' = keystone_session]_vars

\* C8: a call that starts after the first successful get_nova_client has
\* returned constructs no client and returns the client that first call
\* returned, whatever its region argument.
C8_LaterCallsGetFirstClient ==
  \A p \in Procs :
    late[p] =>
      /\ built[p].clients = 0
      /\ pc[p] = "ready" => self_client[p] = firstClient

C10_FailedBuildNoRetry ==
  (last.op = "build" /\ last.exc # "None") =>
    /\ Len(last.creates) <= 1
    /\ last.exc = "ComputeBuildException"
    /\ last.network_ids.none => (Len(last.creates) = 0 /\ last.remote = "not_called")

C10_Witness ==
  /\ last.op = "build"
  /\ last.network_ids.none
  /\ last.exc = "ComputeBuildException"
  /\ last.creates = <<>>
====
